---- MODULE Spec2Model ----
(***************************************************************************)
(* libavcodec/vda.c: the VDA hardware decoder glue.  A consumer thread     *)
(* creates a decoder, submits bitstreams tagged with a pts, pops decoded   *)
(* frames in display order and destroys the decoder; the platform decoder  *)
(* delivers decoded images on its own threads through                      *)
(* vda_decoder_callback, which inserts them into a pts-ordered singly      *)
(* linked list guarded by a pthread mutex.                                 *)
(*                                                                         *)
(* Every access to the context, the chain or the mutex is one step of the  *)
(* thread that makes it; code that touches only a thread's own locals is   *)
(* folded into the neighbouring step.  A NULL dereference (of a frame or   *)
(* of the mutex) ends the process: `crash' records it and nothing runs     *)
(* afterwards.  The platform decoder (VDADecoderCreate, VDADecoderDecode,  *)
(* VDADecoderDestroy and its callback threads) is the environment: it may  *)
(* report any status, call back in any order and on any of its threads,    *)
(* and calls back no more once VDADecoderDestroy has returned.             *)
(***************************************************************************)
EXTENDS Integers, Sequences, FiniteSets, TLC

\* ------------------------------------------------------------------ bounds
\* Number of ff_vda_decoder_decode calls the consumer makes.
MaxSubmits == 3
\* Number of ff_vda_destroy_decoder calls the consumer makes.
MaxDestroys == 2

\* ------------------------------------------------------- program constants
kVDADecoderNoErr == 0
\* OSStatus values the platform decoder reports: success and a failure.
OSStatusValues == {kVDADecoderNoErr, -12473}
\* Presentation timestamps the consumer submits (int64_t frame_pts).
PtsValues == {50, 100}
kCVPixelFormatType_422YpCbCr8 == "2vuy"
PixelFormats == {kCVPixelFormatType_422YpCbCr8, "y420"}
PTS_KEY == "FF_VDA_DECODER_PTS_KEY"

\* ----------------------------------------------------------------- threads
App == "app"
Aux == "aux"
Consumers == {App, Aux}
CbThreads == {"cb1", "cb2"}
Threads == Consumers \cup CbThreads
NoThread == "none"

NULL == 0
\* An absent CVImageBufferRef.
NoImage == [id |-> NULL, fmt |-> "none"]
\* A NULL CFDictionaryRef.
NullDict == [isNull |-> TRUE, entries |-> {}]
\* No callback has run for the submission yet.
NotDelivered == [id |-> NULL, fmt |-> "pending"]
\* Memory no vda_frame has been allocated in.
NoFrame == [pts |-> 0, next_frame |-> NULL, cv_buffer |-> NULL]

\* The decoded image of the i-th submission is image i, and the vda_frame
\* allocated for image i lives at address i.
Images == 1 .. MaxSubmits

VARIABLES
  decoder,        \* vda_ctx->decoder: NULL or the handle VDADecoderCreate stored
  queue_mutex,    \* vda_ctx->queue_mutex: NULL or the allocated pthread mutex
  queue,          \* vda_ctx->queue: NULL or the head frame
  heap,           \* the vda_frame at each address
  freed,          \* the frames av_freep has freed
  mutexOwner,     \* the thread between pthread_mutex_lock and unlock, or NoThread
  hw,             \* the platform decoder behind the handle: none, live, destroyed
  inflight,       \* accepted submissions whose callback has not fired yet
  retains,        \* CVPixelBufferRetain calls per image
  releases,       \* CVPixelBufferRelease calls per image
  pc,             \* each thread's position
  new_frame,      \* callback local new_frame
  queue_walker,   \* callback local queue_walker
  top_frame,      \* ff_vda_queue_pop's local and return value, per consumer
  status,         \* ff_vda_destroy_decoder's local status
  ret,            \* the last return value of create/destroy/decode
  created,        \* ff_vda_create_decoder has been called
  ndestroy,       \* number of ff_vda_destroy_decoder calls started
  submitted,      \* the frame_pts of each ff_vda_decoder_decode call, in order
  delivered,      \* the image_buffer the platform passed for each submission
  lastOp,         \* the API function the consumer called last
  badHandle,      \* a NULL or destroyed handle was passed to the platform decoder
  crash,          \* "none", or why the process died
  popped,         \* history: the frames pops returned, in order
  poppedAtInsert, \* history: Len(popped) when the last insert was linked
  guardAtCheck    \* history: mutexOwner when the consumer's last call, a pop,
                  \* tested the queue

vars == <<decoder, queue_mutex, queue, heap, freed, mutexOwner, hw, inflight,
          retains, releases, pc, new_frame, queue_walker,
          top_frame, status, ret, created, ndestroy, submitted, delivered,
          lastOp, badHandle, crash, popped, poppedAtInsert, guardAtCheck>>

ctxVars == <<decoder, queue_mutex, hw>>
listVars == <<queue, heap, freed>>
imgVars == <<retains, releases>>
cbVars == <<new_frame, queue_walker>>
appVars == <<status, ret, created, ndestroy, submitted>>
envVars == <<inflight, delivered>>
histVars == <<popped, poppedAtInsert>>

\* ---------------------------------------------------------- pure helpers

\* vda_dictionary_with_pts: a one-entry dictionary holding the pts as an SInt64.
vda_dictionary_with_pts(i_pts) ==
  [isNull |-> FALSE, entries |-> {<<PTS_KEY, i_pts>>}]

\* Mutant: the lookup uses another key than the one the dictionary was built
\* with.
PtsFromDictionaryOtherKey(ui) ==
  IF ui.isNull THEN 0
  ELSE IF \E e \in ui.entries : e[1] = "FF_VDA_DECODER_PTS"
       THEN (CHOOSE e \in ui.entries : e[1] = "FF_VDA_DECODER_PTS")[2]
       ELSE 0

\* vda_pts_from_dictionary: 0 for a NULL dictionary or a missing key.
vda_pts_from_dictionary(ui) ==
  IF ui.isNull THEN 0
  ELSE IF \E e \in ui.entries : e[1] = PTS_KEY
       THEN (CHOOSE e \in ui.entries : e[1] = PTS_KEY)[2]
       ELSE 0

\* Mutant: the pixel format test is missing.
ImageRejectedNullOnly(img) == img = NoImage

\* The callback's two early returns: NULL image, wrong pixel format.
ImageRejected(img) ==
  \/ img = NoImage
  \/ kCVPixelFormatType_422YpCbCr8 # img.fmt

\* "we have an empty queue, or this frame earlier than the current queue head"
InsertAtHead(h, walker, nf) ==
  walker = NULL \/ h[nf].pts < h[walker].pts

\* Mutant: the walk's comparison is reversed.
InsertBeforeEarlier(h, next, nf) ==
  next = NULL \/ h[nf].pts > h[next].pts

\* Mutant: the walk stops in front of a frame with an equal timestamp.
InsertBeforeOrEqual(h, next, nf) ==
  next = NULL \/ h[nf].pts <= h[next].pts

\* The walk's stop test: the end of the chain, or a strictly later frame.
InsertBefore(h, next, nf) ==
  next = NULL \/ h[nf].pts < h[next].pts

\* Mutant: the comparison with kVDADecoderNoErr is inverted.
StatusReturnInverted(st) == IF kVDADecoderNoErr = st THEN -1 ELSE 0

\* Mutant: the status is swallowed.
StatusReturnSwallowed(st) == 0

\* if (kVDADecoderNoErr != status) return status; return 0;
StatusReturn(st) == IF kVDADecoderNoErr # st THEN st ELSE 0

\* The frames reachable from frame f through next_frame, head first.
RECURSIVE Chain(_, _, _)
Chain(h, f, fuel) ==
  IF f = NULL \/ fuel = 0 THEN <<>>
  ELSE <<f>> \o Chain(h, h[f].next_frame, fuel - 1)

QueueSeq == Chain(heap, queue, MaxSubmits + 1)
PtsOf(s) == [i \in 1 .. Len(s) |-> heap[s[i]].pts]
Range(s) == {s[i] : i \in 1 .. Len(s)}
\* The frames av_mallocz has returned so far.
Allocated == {f \in Images : heap[f] # NoFrame}

\* ------------------------------------------------------------------- Init
\* The caller's vda_context starts zeroed.
Init ==
  /\ decoder = NULL
  /\ queue_mutex = NULL
  /\ queue = NULL
  /\ heap = [f \in Images |-> NoFrame]
  /\ freed = {}
  /\ mutexOwner = NoThread
  /\ hw = "none"
  /\ inflight = {}
  /\ retains = [i \in Images |-> 0]
  /\ releases = [i \in Images |-> 0]
  /\ pc = [t \in Threads |-> "idle"]
  /\ new_frame = [t \in CbThreads |-> NULL]
  /\ queue_walker = [t \in CbThreads |-> NULL]
  /\ top_frame = [t \in Consumers |-> NULL]
  /\ status = kVDADecoderNoErr
  /\ ret = 0
  /\ created = FALSE
  /\ ndestroy = 0
  /\ submitted = <<>>
  /\ delivered = [i \in Images |-> NotDelivered]
  /\ lastOp = "none"
  /\ badHandle = FALSE
  /\ crash = "none"
  /\ popped = <<>>
  /\ poppedAtInsert = 0
  /\ guardAtCheck = NoThread

\* Thread t is at position l, and the process is alive.
At(t, l) == crash = "none" /\ pc[t] = l

\* ------------------------------------------------ vda_lock_operation
\* AV_LOCK_OBTAIN on a NULL mutex dereferences NULL inside pthread_mutex_lock.
LockCrashes == queue_mutex = NULL
\* Mutant: the lock does not exclude a second thread.
CanObtainNoExclusion == queue_mutex # NULL

\* AV_LOCK_OBTAIN blocks until the mutex is free.
CanObtain == queue_mutex # NULL /\ mutexOwner = NoThread

\* Mutant: the unlock is missing.
ReleaseForgotten(owner) == owner

\* AV_LOCK_RELEASE: the owner of the mutex after its owner unlocked it.
Released(owner) == NoThread

\* --------------------------------------------- ff_vda_create_decoder
\* av_lockmgr_register fails: return -1 before anything is set up.
CreateRegister(t) ==
  /\ At(t, "idle") /\ ~created
  /\ created' = TRUE
  /\ lastOp' = "create"
  /\ guardAtCheck' = NoThread
  /\ \/ /\ ret' = -1
        /\ UNCHANGED pc
     \/ /\ pc' = [pc EXCEPT ![t] = "create_mtx"]
        /\ UNCHANGED ret
  /\ UNCHANGED <<ctxVars, listVars, mutexOwner, envVars, imgVars, cbVars,
                 top_frame, status, ndestroy, submitted, badHandle,
                 crash, histVars>>

\* AV_LOCK_CREATE: av_malloc may fail, and the result is not looked at.
CreateMutex(t) ==
  /\ At(t, "create_mtx")
  /\ \/ queue_mutex' = 1
     \/ queue_mutex' = NULL
  /\ pc' = [pc EXCEPT ![t] = "create_ext"]
  /\ UNCHANGED <<decoder, hw, listVars, mutexOwner, envVars, imgVars, cbVars,
                 top_frame, appVars, lastOp, badHandle, crash,
                 histVars, guardAtCheck>>

\* VDADecoderCreate and the return.
CreateDecoder(t) ==
  /\ At(t, "create_ext")
  /\ \E st \in OSStatusValues :
       /\ ret' = StatusReturn(st)
       /\ IF st = kVDADecoderNoErr
          THEN decoder' = 1 /\ hw' = "live"
          ELSE UNCHANGED <<decoder, hw>>
  /\ pc' = [pc EXCEPT ![t] = "idle"]
  /\ UNCHANGED <<queue_mutex, listVars, mutexOwner, envVars, imgVars, cbVars,
                 top_frame, status, created, ndestroy, submitted, lastOp,
                 badHandle, crash, histVars, guardAtCheck>>

\* --------------------------------------------- ff_vda_decoder_decode
\* The platform decoder, given a live handle: it accepts the submission and
\* keeps the token for the callback, or reports a failure.
DecodeLive(pts) ==
  /\ decoder # NULL /\ hw = "live"
  /\ \E st \in OSStatusValues :
       /\ ret' = StatusReturn(st)
       /\ inflight' = IF st = kVDADecoderNoErr
                      THEN inflight \cup {[img |-> Len(submitted) + 1,
                                           user_info |-> vda_dictionary_with_pts(pts)]}
                      ELSE inflight
  /\ UNCHANGED <<badHandle, crash>>

\* The platform decoder, given NULL or a destroyed handle: it fails or the
\* process dies inside it.
DecodeDead(pts) ==
  /\ decoder = NULL \/ hw # "live"
  /\ badHandle' = TRUE
  /\ \/ /\ crash' = "bad_handle"
        /\ UNCHANGED ret
     \/ /\ \E st \in OSStatusValues \ {kVDADecoderNoErr} :
             ret' = StatusReturn(st)
        /\ UNCHANGED crash
  /\ UNCHANGED inflight

Decode(t) ==
  /\ At(t, "idle") /\ Len(submitted) < MaxSubmits
  /\ \E pts \in PtsValues :
       /\ submitted' = Append(submitted, pts)
       /\ DecodeLive(pts) \/ DecodeDead(pts)
  /\ lastOp' = "decode"
  /\ guardAtCheck' = NoThread
  /\ UNCHANGED <<ctxVars, listVars, mutexOwner, imgVars, pc, cbVars, top_frame,
                 status, created, ndestroy, delivered, histVars>>

\* ---------------------------------------------- vda_decoder_callback
\* The callback's locals are dead once it returns.
CallbackReturn(t) ==
  /\ pc' = [pc EXCEPT ![t] = "idle"]
  /\ new_frame' = [new_frame EXCEPT ![t] = NULL]
  /\ queue_walker' = [queue_walker EXCEPT ![t] = NULL]

\* Lines 120-123: the frame av_mallocz returned, filled in.
BuildFrame(img, ui) ==
  [pts |-> vda_pts_from_dictionary(ui), next_frame |-> NULL, cv_buffer |-> img.id]

\* Lines 110-118: the callback goes on to build a frame for this image.
CallbackAccepts(img) == ~ImageRejected(img)

\* The platform decoder calls back for one accepted submission, with the
\* token it was given and a decoded image, a foreign image or no image.
\* Lines 110-123 touch nothing another thread reads and are one step: the
\* two early returns, then av_mallocz, whose result is used unchecked.
CallbackEntry(t) ==
  /\ At(t, "idle") /\ hw = "live"
  /\ \E p \in inflight :
     \E img \in {NoImage} \cup {[id |-> p.img, fmt |-> f] : f \in PixelFormats} :
       /\ inflight' = inflight \ {p}
       /\ delivered' = [delivered EXCEPT ![p.img] = img]
       /\ IF CallbackAccepts(img)
          THEN \/ /\ crash' = "null_frame"
                  /\ UNCHANGED <<heap, retains, pc, new_frame>>
               \/ /\ heap' = [heap EXCEPT ![img.id] = BuildFrame(img, p.user_info)]
                  /\ retains' = [retains EXCEPT ![img.id] = @ + 1]
                  /\ new_frame' = [new_frame EXCEPT ![t] = img.id]
                  /\ pc' = [pc EXCEPT ![t] = "cb_lock"]
                  /\ UNCHANGED crash
          ELSE UNCHANGED <<heap, retains, pc, new_frame, crash>>
  /\ UNCHANGED <<ctxVars, queue, freed, mutexOwner, releases, queue_walker,
                 top_frame, appVars, lastOp, badHandle, histVars, guardAtCheck>>

\* Line 125.
CallbackLock(t) ==
  /\ At(t, "cb_lock")
  /\ \/ /\ LockCrashes
        /\ crash' = "null_mutex"
        /\ UNCHANGED <<mutexOwner, pc>>
     \/ /\ CanObtain
        /\ mutexOwner' = t
        /\ pc' = [pc EXCEPT ![t] = "cb_head"]
        /\ UNCHANGED crash
  /\ UNCHANGED <<ctxVars, listVars, envVars, imgVars, cbVars, top_frame,
                 appVars, lastOp, badHandle, histVars, guardAtCheck>>

\* Lines 127-134.
CallbackHead(t) ==
  /\ At(t, "cb_head")
  /\ queue_walker' = [queue_walker EXCEPT ![t] = queue]
  /\ IF InsertAtHead(heap, queue, new_frame[t])
     THEN /\ heap' = [heap EXCEPT ![new_frame[t]].next_frame = queue]
          /\ queue' = new_frame[t]
          /\ poppedAtInsert' = Len(popped)
          /\ pc' = [pc EXCEPT ![t] = "cb_unlock"]
     ELSE /\ pc' = [pc EXCEPT ![t] = "cb_walk"]
          /\ UNCHANGED <<heap, queue, poppedAtInsert>>
  /\ UNCHANGED <<ctxVars, freed, mutexOwner, envVars, imgVars,
                 new_frame, top_frame, appVars, lastOp, badHandle,
                 crash, popped, guardAtCheck>>

\* Lines 140-151: one turn of the walk.
CallbackWalk(t) ==
  /\ At(t, "cb_walk")
  /\ LET next_frame == heap[queue_walker[t]].next_frame IN
     IF InsertBefore(heap, next_frame, new_frame[t])
     THEN /\ heap' = [heap EXCEPT ![new_frame[t]].next_frame = next_frame,
                                  ![queue_walker[t]].next_frame = new_frame[t]]
          /\ poppedAtInsert' = Len(popped)
          /\ pc' = [pc EXCEPT ![t] = "cb_unlock"]
          /\ UNCHANGED queue_walker
     ELSE /\ queue_walker' = [queue_walker EXCEPT ![t] = next_frame]
          /\ UNCHANGED <<heap, poppedAtInsert, pc>>
  /\ UNCHANGED <<ctxVars, queue, freed, mutexOwner, envVars, imgVars,
                 new_frame, top_frame, appVars, lastOp,
                 badHandle, crash, popped, guardAtCheck>>

\* Line 154 and the return.
CallbackUnlock(t) ==
  /\ At(t, "cb_unlock")
  /\ mutexOwner' = Released(mutexOwner)
  /\ CallbackReturn(t)
  /\ UNCHANGED <<ctxVars, listVars, envVars, imgVars, top_frame, appVars,
                 lastOp, badHandle, crash, histVars, guardAtCheck>>

\* -------------------------------------------------- ff_vda_queue_pop
\* Mutant: the emptiness test is missing.
QueueNeverLooksEmpty(q) == FALSE

\* Line 228, read without the mutex.
QueueLooksEmpty(q) == q = NULL

PopCheck(t) ==
  /\ At(t, "idle")
  /\ lastOp' = "pop"
  /\ guardAtCheck' = mutexOwner
  /\ IF QueueLooksEmpty(queue)
     THEN /\ top_frame' = [top_frame EXCEPT ![t] = NULL]
          /\ UNCHANGED pc
     ELSE /\ pc' = [pc EXCEPT ![t] = "pop_lock"]
          /\ UNCHANGED top_frame
  /\ UNCHANGED <<ctxVars, listVars, mutexOwner, envVars, imgVars, cbVars,
                 appVars, badHandle, crash, histVars>>

\* Line 231.
PopLock(t) ==
  /\ At(t, "pop_lock")
  /\ \/ /\ LockCrashes
        /\ crash' = "null_mutex"
        /\ UNCHANGED <<mutexOwner, pc>>
     \/ /\ CanObtain
        /\ mutexOwner' = t
        /\ pc' = [pc EXCEPT ![t] = "pop_take"]
        /\ UNCHANGED crash
  /\ UNCHANGED <<ctxVars, listVars, envVars, imgVars, cbVars, top_frame,
                 appVars, lastOp, badHandle, histVars, guardAtCheck>>

\* Mutant: the pop leaves the head where it is.
PopNextKeepsHead(h, top) == top

\* Mutant: the pop drops the rest of the chain.
PopNextDropsRest(h, top) == NULL

\* Line 233: the head after the pop.
PopNext(h, top) == h[top].next_frame

\* Lines 232-233: top_frame->next_frame is read whatever top_frame is.
PopTake(t) ==
  /\ At(t, "pop_take")
  /\ IF queue = NULL
     THEN /\ crash' = "null_frame"
          /\ UNCHANGED <<queue, top_frame, popped, pc>>
     ELSE /\ top_frame' = [top_frame EXCEPT ![t] = queue]
          /\ queue' = PopNext(heap, queue)
          /\ popped' = Append(popped, queue)
          /\ pc' = [pc EXCEPT ![t] = "pop_unlock"]
          /\ UNCHANGED crash
  /\ UNCHANGED <<ctxVars, heap, freed, mutexOwner, envVars, imgVars, cbVars,
                 appVars, lastOp, badHandle, poppedAtInsert, guardAtCheck>>

\* Lines 234-236.
PopUnlock(t) ==
  /\ At(t, "pop_unlock")
  /\ mutexOwner' = Released(mutexOwner)
  /\ pc' = [pc EXCEPT ![t] = "idle"]
  /\ UNCHANGED <<ctxVars, listVars, envVars, imgVars, cbVars, top_frame,
                 appVars, lastOp, badHandle, crash, histVars, guardAtCheck>>

\* ------------------------------------------ ff_vda_release_vda_frame
\* The image's release count after CVPixelBufferRelease(frame->cv_buffer).
ReleaseImage(rel, h, f) == [rel EXCEPT ![h[f].cv_buffer] = @ + 1]

\* The consumer releases the frame its last pop returned, once.
ReleaseFrame(t) ==
  /\ At(t, "idle")
  /\ top_frame[t] # NULL /\ top_frame[t] \notin freed
  /\ releases' = ReleaseImage(releases, heap, top_frame[t])
  /\ freed' = freed \cup {top_frame[t]}
  /\ lastOp' = "release"
  /\ guardAtCheck' = NoThread
  /\ UNCHANGED <<ctxVars, queue, heap, mutexOwner, envVars, retains, pc, cbVars,
                 top_frame, appVars, badHandle, crash, histVars>>

\* -------------------------------------------- ff_vda_destroy_decoder
\* VDADecoderDestroy on the live decoder: it returns once no callback is
\* running, no callback starts afterwards, and it reports any status.
DestroyLive ==
  /\ hw = "live"
  /\ \A c \in CbThreads : pc[c] = "idle"
  /\ hw' = "destroyed"
  /\ inflight' = {}
  /\ \E st \in OSStatusValues : status' = st
  /\ UNCHANGED <<badHandle, crash>>

\* VDADecoderDestroy on a handle that was destroyed before.
DestroyDead ==
  /\ hw # "live"
  /\ badHandle' = TRUE
  /\ \/ /\ crash' = "bad_handle"
        /\ UNCHANGED status
     \/ /\ \E st \in OSStatusValues : status' = st
        /\ UNCHANGED crash
  /\ UNCHANGED <<hw, inflight>>

\* Mutant: the test of the handle is inverted.
HasDecoderInverted(d) == d = NULL

\* Line 210: if (vda_ctx->decoder).
HasDecoder(d) == d # NULL

\* Lines 208-211.
DestroyDecoder(t) ==
  /\ At(t, "idle") /\ ndestroy < MaxDestroys
  /\ ndestroy' = ndestroy + 1
  /\ lastOp' = "destroy"
  /\ guardAtCheck' = NoThread
  /\ IF HasDecoder(decoder)
     THEN DestroyLive \/ DestroyDead
     ELSE /\ status' = kVDADecoderNoErr
          /\ UNCHANGED <<hw, inflight, badHandle, crash>>
  /\ pc' = [pc EXCEPT ![t] = IF crash' = "none" THEN "clr_lock" ELSE "idle"]
  /\ UNCHANGED <<decoder, queue_mutex, listVars, mutexOwner, imgVars, cbVars,
                 top_frame, ret, created, submitted, delivered, histVars>>

\* vda_clear_queue, line 90.
ClearLock(t) ==
  /\ At(t, "clr_lock")
  /\ \/ /\ LockCrashes
        /\ crash' = "null_mutex"
        /\ UNCHANGED <<mutexOwner, pc>>
     \/ /\ CanObtain
        /\ mutexOwner' = t
        /\ pc' = [pc EXCEPT ![t] = "clr_loop"]
        /\ UNCHANGED crash
  /\ UNCHANGED <<ctxVars, listVars, envVars, imgVars, cbVars, top_frame,
                 appVars, lastOp, badHandle, histVars, guardAtCheck>>

\* Mutant: the drain steps over every second frame.
ClearNextSkips(h, top) ==
  IF h[top].next_frame = NULL THEN NULL ELSE h[h[top].next_frame].next_frame

\* The frame the drain's loop moves the head to after taking top.
ClearNext(h, top) == h[top].next_frame

\* vda_clear_queue, lines 92-97: one turn of the loop.
ClearLoop(t) ==
  /\ At(t, "clr_loop")
  /\ IF queue # NULL
     THEN /\ queue' = ClearNext(heap, queue)
          /\ releases' = ReleaseImage(releases, heap, queue)
          /\ freed' = freed \cup {queue}
          /\ UNCHANGED pc
     ELSE /\ pc' = [pc EXCEPT ![t] = "clr_unlock"]
          /\ UNCHANGED <<queue, releases, freed>>
  /\ UNCHANGED <<ctxVars, heap, mutexOwner, envVars, retains, cbVars, top_frame,
                 appVars, lastOp, badHandle, crash, histVars, guardAtCheck>>

\* vda_clear_queue, line 99.
ClearUnlock(t) ==
  /\ At(t, "clr_unlock")
  /\ mutexOwner' = Released(mutexOwner)
  /\ pc' = [pc EXCEPT ![t] = "destroy_mtx"]
  /\ UNCHANGED <<ctxVars, listVars, envVars, imgVars, cbVars, top_frame,
                 appVars, lastOp, badHandle, crash, histVars, guardAtCheck>>

\* Lines 215-221: AV_LOCK_DESTROY frees the mutex and clears the pointer.
DestroyFinish(t) ==
  /\ At(t, "destroy_mtx")
  /\ queue_mutex' = IF queue_mutex # NULL THEN NULL ELSE queue_mutex
  /\ ret' = StatusReturn(status)
  /\ pc' = [pc EXCEPT ![t] = "idle"]
  /\ UNCHANGED <<decoder, hw, listVars, mutexOwner, envVars, imgVars, cbVars,
                 top_frame, status, created, ndestroy, submitted, lastOp,
                 badHandle, crash, histVars, guardAtCheck>>

\* ------------------------------------------------------ specification
\* Mutant: a second thread calls ff_vda_queue_pop as well.
TwoPopCallers == {App, Aux}

\* The threads that call ff_vda_queue_pop: the one consumer thread.
PopCallers == {App}

\* ff_vda_queue_pop, step by step.
Pop(t) == PopCheck(t) \/ PopLock(t) \/ PopTake(t) \/ PopUnlock(t)

\* The consumer's other calls.
Consumer(t) ==
  \/ CreateRegister(t) \/ CreateMutex(t) \/ CreateDecoder(t)
  \/ Decode(t)
  \/ ReleaseFrame(t)
  \/ DestroyDecoder(t) \/ ClearLock(t) \/ ClearLoop(t) \/ ClearUnlock(t)
  \/ DestroyFinish(t)

Callback(t) ==
  \/ CallbackEntry(t)
  \/ CallbackLock(t) \/ CallbackHead(t) \/ CallbackWalk(t) \/ CallbackUnlock(t)

\* One consumer thread and the platform decoder's callback threads.
Next ==
  \/ Consumer(App)
  \/ \E t \in PopCallers : Pop(t)
  \/ \E t \in CbThreads : Callback(t)

Spec == Init /\ [][Next]_vars

\* Every thread that is inside a call keeps running: the scheduler starves
\* no thread.  Whether the consumer makes another call, and whether the
\* platform calls back, is left open.
Running(t) ==
  \/ CreateMutex(t) \/ CreateDecoder(t)
  \/ PopLock(t) \/ PopTake(t) \/ PopUnlock(t)
  \/ ClearLock(t) \/ ClearLoop(t) \/ ClearUnlock(t) \/ DestroyFinish(t)

CallbackRunning(t) ==
  CallbackLock(t) \/ CallbackHead(t) \/ CallbackWalk(t) \/ CallbackUnlock(t)

FairSpec ==
  /\ Spec
  /\ WF_vars(Running(App))
  /\ \A t \in CbThreads : WF_vars(CallbackRunning(t))

\* ------------------------------------------------- derived notions
NonDecreasing(p) == \A i \in 1 .. Len(p) - 1 : p[i] <= p[i + 1]
NoDuplicates(q) == \A i, j \in 1 .. Len(q) : q[i] = q[j] => i = j
\* The callbacks between av_mallocz and the store that links their frame.
Linking == {t \in CbThreads : pc[t] \in {"cb_lock", "cb_head", "cb_walk"}}
\* The frames whose insert has taken effect.
Linked == Allocated \ {new_frame[t] : t \in Linking}
\* The frames vda_clear_queue released.
Drained == freed \ Range(popped)
\* The pops since the last insert took effect.
PoppedSinceInsert == SubSeq(popped, poppedAtInsert + 1, Len(popped))

\* ------------------------------------------------------------ claims

\* C1: in every reachable state, whatever the interleaving of callback
\* inserts and pops, the timestamps read from the head of the queue to its
\* tail never decrease, so popping until empty yields a non-decreasing
\* sequence.
C1_QueueSorted == NonDecreasing(PtsOf(QueueSeq))

\* C1 witness: after a pop and a later insert the queue holds two frames with
\* different timestamps.
C1_Witness ==
  /\ poppedAtInsert >= 1
  /\ Len(QueueSeq) >= 2
  /\ heap[QueueSeq[1]].pts < heap[QueueSeq[Len(QueueSeq)]].pts

\* C2: a pop that takes a frame takes the head, whose timestamp is the least
\* of all queued frames, and leaves the other frames queued in the same
\* order; a pop returns NULL only when the queue holds no frame at the moment
\* it looks.
C2_PopTakesMinimum ==
  [][\A t \in Consumers :
       /\ (pc[t] = "pop_take" /\ pc'[t] = "pop_unlock") =>
            /\ QueueSeq # <<>>
            /\ top_frame'[t] = Head(QueueSeq)
            /\ \A g \in Range(QueueSeq) : heap[top_frame'[t]].pts <= heap[g].pts
            /\ QueueSeq' = Tail(QueueSeq)
            /\ heap' = heap
       /\ (PopCheck(t) /\ pc'[t] = "idle") =>
            /\ QueueSeq = <<>>
            /\ top_frame'[t] = NULL
            /\ QueueSeq' = QueueSeq]_vars

\* C2 witness: a pop has just taken the head of a queue of several frames.
C2_Witness ==
  /\ pc[App] = "pop_unlock"
  /\ top_frame[App] # NULL
  /\ Len(QueueSeq) >= 2

\* C3: the store that links a new frame puts it after every queued frame
\* whose timestamp is less than or equal to its own and immediately before
\* the first frame with a strictly greater timestamp; every frame queued
\* before is still queued, in the same order, so frames with equal
\* timestamps leave in arrival order.
C3_InsertAfterEquals ==
  [][\A t \in CbThreads :
       (pc[t] \in {"cb_head", "cb_walk"} /\ pc'[t] = "cb_unlock") =>
         LET nf == new_frame[t]
             q == QueueSeq
             k == Cardinality({i \in 1 .. Len(q) : heap[q[i]].pts <= heap[nf].pts})
         IN /\ QueueSeq' = SubSeq(q, 1, k) \o <<nf>> \o SubSeq(q, k + 1, Len(q))
            /\ \A i \in 1 .. k : heap[q[i]].pts <= heap[nf].pts
            /\ \A i \in k + 1 .. Len(q) : heap[q[i]].pts > heap[nf].pts]_vars

\* C3 witness: a callback has just linked its frame behind a frame with the
\* same timestamp and in front of a frame with a greater one.
C3_Witness ==
  \E t \in CbThreads :
    /\ pc[t] = "cb_unlock"
    /\ Len(QueueSeq) >= 3
    /\ \E i \in 2 .. Len(QueueSeq) - 1 :
         /\ QueueSeq[i] = new_frame[t]
         /\ heap[QueueSeq[i - 1]].pts = heap[new_frame[t]].pts
         /\ heap[QueueSeq[i + 1]].pts > heap[new_frame[t]].pts

\* C4: no insert is lost or duplicated by a concurrent insert.  Every frame
\* whose insert has taken effect is in exactly one place (queued once, popped
\* once, or drained), and the frames popped since the last insert, followed
\* by the frames still queued, are in ascending timestamp order: so after N
\* concurrent callbacks, draining by pops returns exactly the N frames in
\* sorted order.
C4_NoLossUnderConcurrency ==
  /\ Range(QueueSeq) \cup Range(popped) \cup Drained = Linked
  /\ NoDuplicates(QueueSeq \o popped)
  /\ Range(QueueSeq) \cap freed = {}
  /\ NonDecreasing(PtsOf(PoppedSinceInsert \o QueueSeq))

\* C4 witness: the callbacks of all submissions, with timestamps that are not
\* all equal, have completed before the first pop, and pops have drained the
\* queue.
C4_Witness ==
  /\ Allocated = Images
  /\ poppedAtInsert = 0
  /\ Len(popped) = MaxSubmits
  /\ queue = NULL
  /\ freed = {}
  /\ heap[popped[1]].pts < heap[popped[Len(popped)]].pts
  /\ \A t \in CbThreads : pc[t] = "idle"

\* C5: the timestamp of every frame is the frame_pts of the submit call whose
\* token its callback received, whatever the order of the callbacks; after
\* submits with pts 100 then 50, once both callbacks have inserted their
\* frames, the pops return pts 50, then pts 100, then nothing.
C5_PtsRoundTrip ==
  /\ \A f \in Allocated : heap[f].pts = submitted[heap[f].cv_buffer]
  /\ ( /\ Len(submitted) >= 2
       /\ submitted[1] = 100 /\ submitted[2] = 50
       /\ Linked = {1, 2}
       /\ poppedAtInsert = 0 )
     => /\ Len(popped) <= 2
        /\ \A i \in 1 .. Len(popped) : heap[popped[i]].pts = <<50, 100>>[i]
        /\ Len(popped) = 2 => queue = NULL
        /\ (Len(popped) = 2 /\ pc[App] = "idle" /\ lastOp = "pop")
             => top_frame[App] \in {NULL, popped[2]}

\* C5 witness: pts 100 was submitted before pts 50, both frames were inserted,
\* and three pops returned the pts 50 frame, the pts 100 frame and NULL.
C5_Witness ==
  /\ Len(submitted) = 2
  /\ submitted[1] = 100 /\ submitted[2] = 50
  /\ popped = <<2, 1>>
  /\ poppedAtInsert = 0
  /\ lastOp = "pop" /\ pc[App] = "idle" /\ top_frame[App] = NULL

\* An absent image, or one in another pixel format than the session's.
Malformed(img) == img.id = NULL \/ img.fmt # "2vuy"

\* C6: a callback invoked with an absent image or an image of another pixel
\* format changes neither the head nor any frame or link, retains no image
\* and does not take the mutex; until a callback with a valid image has
\* built a frame the queue stays empty and no pop returns a frame.
C6_MalformedCallbackIgnored ==
  /\ [][\A i \in Images :
          (delivered[i] = NotDelivered /\ Malformed(delivered'[i])
             /\ delivered'[i] # NotDelivered)
          => UNCHANGED <<queue, heap, freed, retains, releases, mutexOwner, pc>>]_vars
  /\ [](Allocated = {} => (queue = NULL /\ popped = <<>>
                           /\ \A t \in Consumers : top_frame[t] = NULL))

\* C6 witness: callbacks were invoked with an absent image and with an image
\* of another format, no frame was ever built, and a pop returned NULL.
C6_Witness ==
  /\ \E i \in Images : delivered[i] = NoImage
  /\ \E i \in Images : delivered[i].id # NULL /\ delivered[i].fmt # "2vuy"
  /\ Allocated = {}
  /\ queue = NULL
  /\ lastOp = "pop" /\ pc[App] = "idle" /\ top_frame[App] = NULL

\* vda_clear_queue has emptied the queue and not yet returned to a caller
\* that could let new frames in.
DrainDone == pc[App] \in {"clr_unlock", "destroy_mtx"}

\* C7: once the drain has run, the queue is empty and the image of every
\* frame that was inserted and not popped has been released exactly once;
\* no image is ever released more often than it was retained.
C7_DrainReleasesAll ==
  /\ DrainDone =>
       /\ queue = NULL
       /\ \A f \in Linked \ Range(popped) :
            f \in freed /\ releases[heap[f].cv_buffer] = 1
  /\ \A i \in Images : releases[i] <= retains[i] /\ retains[i] <= 1

\* C7 witness: the drain has run on a queue of at least two frames.
C7_Witness ==
  /\ pc[App] = "destroy_mtx"
  /\ Cardinality(Drained) >= 2

\* create has not succeeded, or destroy has run: the session is not Created.
NotCreated == decoder = NULL \/ hw # "live"

\* C8 (as claimed): a submit or a pop on a session that is not Created fails
\* (submit) or returns NULL (pop) without handing a missing or destroyed
\* handle to the platform decoder, without touching a missing mutex and
\* without changing the queue.
C8_LifecycleEnforced ==
  [][/\ (NotCreated /\ Decode(App)) =>
          /\ ret' # 0
          /\ ~badHandle'
          /\ crash' = "none"
          /\ UNCHANGED <<queue, heap>>
     /\ (NotCreated /\ PopCheck(App)) =>
          /\ pc'[App] = "idle"
          /\ top_frame'[App] = NULL
          /\ UNCHANGED <<queue, heap, mutexOwner, crash>>]_vars

\* C9: a pop that finds the queue empty returns NULL in the step that looks
\* at the head: it never waits for the mutex, whoever holds it.
C9_EmptyPopDoesNotBlock ==
  [][\A t \in Consumers :
       (PopCheck(t) /\ queue = NULL) =>
          /\ pc'[t] = "idle"
          /\ top_frame'[t] = NULL
          /\ mutexOwner' = mutexOwner]_vars

\* C9 witness: the consumer's last call, a pop, returned NULL while a callback
\* thread held the mutex.
C9_Witness ==
  /\ lastOp = "pop" /\ pc[App] = "idle"
  /\ top_frame[App] = NULL
  /\ guardAtCheck \in CbThreads

\* ff_vda_destroy_decoder has returned and the consumer has called nothing
\* since.
DestroyReturned == lastOp = "destroy" /\ pc[App] = "idle" /\ crash = "none"

\* C10: when VDADecoderDestroy reports a failure, ff_vda_destroy_decoder
\* still drains the queue (every queued image released, queue empty), still
\* frees the mutex, and returns that status; when it reports success,
\* destroy returns 0.
C10_DestroyFailureStillDrains ==
  DestroyReturned =>
    /\ queue = NULL
    /\ \A f \in Linked \ Range(popped) :
         f \in freed /\ releases[heap[f].cv_buffer] = 1
    /\ queue_mutex = NULL
    /\ status # kVDADecoderNoErr => ret = status
    /\ status = kVDADecoderNoErr => ret = 0

\* C10 witness: destroy returned the platform's failure status after draining
\* a queued frame.
C10_Witness ==
  /\ DestroyReturned
  /\ ndestroy = 1
  /\ status # kVDADecoderNoErr /\ ret = status
  /\ Drained # {}

\* C11 (as claimed): ff_vda_destroy_decoder on a session that holds no
\* handle, whether create succeeded in part, failed or never ran, makes no
\* VDADecoderDestroy call, does not die taking a mutex that was never
\* created, drains the queue and returns 0.
C11_DestroyWithoutHandle ==
  (lastOp = "destroy" /\ decoder = NULL) =>
    /\ crash = "none"
    /\ status = kVDADecoderNoErr
    /\ hw = "none"
    /\ pc[App] = "idle" => (queue = NULL /\ ret = 0)

\* The step in which ff_vda_create_decoder returns.
CreateReturns ==
  \/ CreateRegister(App) /\ pc'[App] = "idle"
  \/ CreateDecoder(App)

\* C12: ff_vda_create_decoder returns a failure status when
\* av_lockmgr_register fails (-1) and when VDADecoderCreate reports a failure
\* (that status), and 0 otherwise; the session holds a live handle and a
\* mutex only after create returned 0, and after a failed create it holds no
\* handle.
C12_CreateFailureReported ==
  [][/\ CreateReturns =>
          /\ ret' = 0 <=> (decoder' # NULL /\ hw' = "live")
          /\ ret' # 0 => (decoder' = NULL /\ hw' = "none")
          /\ (CreateRegister(App) /\ pc'[App] = "idle") =>
               (ret' = -1 /\ queue_mutex' = NULL)
          /\ CreateDecoder(App) => ret' \in OSStatusValues
     /\ (decoder = NULL /\ decoder' # NULL) => (CreateReturns /\ ret' = 0)
     /\ (hw = "none" /\ hw' # "none") => (CreateReturns /\ ret' = 0)]_vars

\* C12 witness: create has just returned the platform decoder's failure
\* status and left the session without a handle, its mutex allocated.
C12_Witness ==
  /\ lastOp = "create" /\ pc[App] = "idle"
  /\ ret \in OSStatusValues \ {kVDADecoderNoErr}
  /\ decoder = NULL /\ queue_mutex # NULL

\* The steps of thread t that read or write vda_ctx->queue or the next_frame
\* of a linked frame.
ConsumerTouchesChain(t) == PopCheck(t) \/ PopTake(t) \/ ClearLoop(t)
CallbackTouchesChain(t) == CallbackHead(t) \/ CallbackWalk(t)

\* C13 (as claimed): every step of the insert, the pop and the drain that
\* reads or writes the head or a linked frame's next_frame is taken by the
\* thread that holds the mutex, so no thread touches the chain while another
\* thread is inside its critical section.
C13_ChainAccessGuarded ==
  [][/\ \A t \in Consumers : ConsumerTouchesChain(t) => mutexOwner = t
     /\ \A t \in CbThreads : CallbackTouchesChain(t) => mutexOwner = t]_vars

\* The steps in which thread t calls into the platform: VDADecoderCreate,
\* VDADecoderDecode with the token built for it, VDADecoderDestroy, and
\* CVPixelBufferRelease on a popped frame.
ConsumerCallsPlatform(t) ==
  \/ CreateDecoder(t)
  \/ Decode(t)
  \/ DestroyDecoder(t) /\ decoder # NULL
  \/ ReleaseFrame(t)
\* The callback's CVPixelBufferGetPixelFormatType, CVPixelBufferRetain and
\* its reading of the token.
CallbackCallsPlatform(t) == CallbackEntry(t)
\* The drain's CVPixelBufferRelease of a queued frame's image.
DrainReleases(t) == ClearLoop(t) /\ queue # NULL

\* C14 (as claimed): no thread calls into the platform (retain, release,
\* decoder create, decode, destroy, building or reading a token) while it
\* holds the mutex, in the insert, the pop and the drain alike.
C14_NoPlatformCallUnderGuard ==
  [][/\ \A t \in Consumers :
          (ConsumerCallsPlatform(t) \/ DrainReleases(t)) => mutexOwner # t
     /\ \A t \in CbThreads : CallbackCallsPlatform(t) => mutexOwner # t]_vars

\* C14 (amended): the insert and the pop, and every call of the consumer
\* other than the drain, call into the platform only while they do not hold
\* the mutex; the drain holds the mutex while it releases each queued image,
\* and that release is the only platform call made under the mutex.
C14_OnlyDrainReleasesUnderGuard ==
  [][/\ \A t \in Consumers :
          /\ ConsumerCallsPlatform(t) => mutexOwner # t
          /\ DrainReleases(t) =>
               /\ mutexOwner = t
               /\ releases' = ReleaseImage(releases, heap, queue)
               /\ UNCHANGED <<retains, hw, inflight, decoder>>
     /\ \A t \in CbThreads : CallbackCallsPlatform(t) => mutexOwner # t
     /\ mutexOwner # NoThread =>
          \/ UNCHANGED <<retains, releases, hw, inflight, decoder, submitted>>
          \/ DrainReleases(mutexOwner)
          \/ \E t \in Threads \ {mutexOwner} :
               \/ t \in Consumers /\ ConsumerCallsPlatform(t)
               \/ t \in CbThreads /\ CallbackCallsPlatform(t)]_vars

\* C14 witness: the drain, holding the mutex, has released the image of one
\* queued frame and is about to release the next.
C14_Witness ==
  /\ pc[App] = "clr_loop" /\ mutexOwner = App
  /\ Drained # {}
  /\ queue # NULL

\* vda_clear_queue is running.
InDrain == pc[App] \in {"clr_lock", "clr_loop", "clr_unlock"}
\* A call of ff_vda_destroy_decoder has returned.
DestroyCompleted ==
  \/ ndestroy >= 2
  \/ /\ ndestroy = 1 /\ pc[App] = "idle"
     /\ ~(lastOp = "destroy" /\ crash # "none")

\* C15: ff_vda_destroy_decoder calls VDADecoderDestroy first, then drains,
\* then frees the mutex.  As the platform calls back no more once
\* VDADecoderDestroy has returned, no callback is anywhere in its insert
\* while the drain runs or after the mutex was freed, and the queue stays
\* empty once destroy has returned.
C15_DestroyOrder ==
  /\ []((InDrain \/ pc[App] = "destroy_mtx" \/ DestroyCompleted) =>
          (hw # "live" /\ \A c \in CbThreads : pc[c] = "idle"))
  /\ [](DestroyCompleted => queue = NULL)
  /\ [][/\ (hw = "live" /\ hw' # "live") =>
             (pc[App] = "idle" /\ pc'[App] = "clr_lock")
        /\ (queue_mutex # NULL /\ queue_mutex' = NULL) =>
             /\ pc[App] = "destroy_mtx"
             /\ hw # "live"
             /\ queue = NULL /\ mutexOwner = NoThread]_vars

\* C15 witness: destroy has returned after the platform decoder was
\* destroyed, queued frames were drained and the mutex was freed, with a
\* submission whose callback never came.
C15_Witness ==
  /\ DestroyCompleted /\ pc[App] = "idle"
  /\ hw = "destroyed" /\ queue_mutex = NULL
  /\ Drained # {}
  /\ \E i \in 1 .. Len(submitted) : delivered[i] = NotDelivered

\* A step of callback thread t in which av_mallocz returned NULL: the
\* callback got an image it accepts and no frame was allocated.
AllocFails(t) ==
  /\ CallbackEntry(t)
  /\ \E i \in Images :
       delivered[i] = NotDelivered /\ CallbackAccepts(delivered'[i])
  /\ Allocated' = Allocated

\* C16 (as claimed): when av_mallocz fails in the callback, the callback
\* returns: the frame is dropped, the queue and every frame are unchanged,
\* the mutex is not taken, the image is not retained, and the absent frame
\* is not used.
C16_AllocFailureDropsFrame ==
  [][\A t \in CbThreads :
       AllocFails(t) =>
         /\ crash' = "none"
         /\ pc'[t] = "idle"
         /\ UNCHANGED <<queue, heap, mutexOwner, retains>>]_vars

\* The positions between AV_LOCK_OBTAIN and AV_LOCK_RELEASE.
InCriticalSection(t) ==
  pc[t] \in {"cb_head", "cb_walk", "cb_unlock", "pop_take", "pop_unlock",
             "clr_loop", "clr_unlock"}

\* C17 (as claimed): the mutex is held only by a thread inside the insert,
\* the pop or the drain, so it is free whenever no call is in progress; and
\* with no thread starved, every insert, pop and drain that has begun comes
\* to its end.
C17_GuardReleasedAndCompletes ==
  /\ [](mutexOwner # NoThread => InCriticalSection(mutexOwner))
  /\ []((\A t \in Threads : pc[t] = "idle") => mutexOwner = NoThread)
  /\ \A t \in CbThreads : (pc[t] = "cb_lock") ~> (pc[t] = "idle")
  /\ (pc[App] = "pop_lock") ~> (pc[App] = "idle")
  /\ (pc[App] = "clr_lock") ~> (pc[App] = "destroy_mtx")

\* C18 (as claimed): once ff_vda_destroy_decoder has returned, the session
\* holds no handle and no mutex, and no later call (a decode, a second
\* destroy) hands the destroyed handle to the platform decoder.
C18_DestroyedIsTerminal ==
  [][/\ DestroyCompleted' => (decoder' = NULL /\ queue_mutex' = NULL)
     /\ (hw = "destroyed" /\ (Decode(App) \/ DestroyDecoder(App))) =>
          (decoder = NULL /\ UNCHANGED badHandle)]_vars

\* Where a frame can be.
InQueue(f) == f \in Range(QueueSeq)
WithConsumer(f) == f \in Range(popped) /\ f \notin freed
IsReleased(f) == f \in freed
\* Built by a callback that has not linked it yet.
WithCallback(f) == \E t \in Linking : new_frame[t] = f

\* What the claim says of popped frames and of releases.
PoppedLeavesQueue ==
  /\ NoDuplicates(QueueSeq)
  /\ NoDuplicates(popped)
  /\ Range(popped) \cap Range(QueueSeq) = {}
  /\ Range(popped) \cap Drained = {}
  /\ \A i \in Images : releases[i] <= 1

\* C19 (as claimed): in every reachable state every frame a callback has
\* built is in exactly one place: linked into the queue once, with the
\* consumer after a pop, or released; a popped frame is not reachable from
\* the head, is not popped again and is not released by the drain, and every
\* image is released at most once.
C19_RecordInOnePlace ==
  /\ \A f \in Allocated :
       Cardinality({p \in {"queue", "consumer", "released"} :
                      \/ p = "queue" /\ InQueue(f)
                      \/ p = "consumer" /\ WithConsumer(f)
                      \/ p = "released" /\ IsReleased(f)}) = 1
  /\ PoppedLeavesQueue

\* C19 (amended): every frame a callback has built is in exactly one place:
\* still with the callback that built it and has not linked it yet, linked
\* into the queue once, with the consumer after a pop, or released; the rest
\* as claimed.
C19_RecordInOnePlaceOrInserting ==
  /\ \A f \in Allocated :
       Cardinality({p \in {"callback", "queue", "consumer", "released"} :
                      \/ p = "callback" /\ WithCallback(f)
                      \/ p = "queue" /\ InQueue(f)
                      \/ p = "consumer" /\ WithConsumer(f)
                      \/ p = "released" /\ IsReleased(f)}) = 1
  /\ PoppedLeavesQueue

\* C19 witness: one frame is with a callback waiting for the mutex, one is
\* queued, and one was popped and is with the consumer.
C19_Witness ==
  \E f, g, h \in Allocated :
    /\ WithCallback(f)
    /\ InQueue(g)
    /\ WithConsumer(h)

\* C20: with one thread calling ff_vda_queue_pop (and the drain run by that
\* same thread), a pop whose test at line 228 saw a frame still finds a frame
\* when it reads the head under the mutex at lines 232-233, whatever the
\* callbacks insert in between: top_frame->next_frame never reads through
\* NULL.
C20_SinglePopFindsHead ==
  \A t \in Consumers : pc[t] \in {"pop_lock", "pop_take"} => queue # NULL

\* C20 witness: the pop tested the head while a callback thread held the
\* mutex for its insert, then waited, and now holds the mutex with the head
\* still there.
C20_Witness ==
  /\ pc[App] = "pop_take" /\ mutexOwner = App
  /\ guardAtCheck \in CbThreads
  /\ Len(QueueSeq) >= 2

====
